---- MODULE Spec2Model ----
(***************************************************************************)
(* A model of count_classifications.py: the taxonomy tree built by         *)
(* load_tax_info, the grouping of classification records by                *)
(* load_tax_ids_per_read, the per-read resolution of add_rank_count and    *)
(* find_lca, the cumulative counting loop of main and the two report       *)
(* writers.  Python dictionaries are functions whose DOMAIN is the key     *)
(* set; an exception ends the run where pc stands, its kind in error.       *)
(***************************************************************************)
EXTENDS Integers, Sequences, FiniteSets, TLC

VARIABLES pc, error, tree_data, tax_id_to_parent, tax_id_to_rank,
          tax_id_to_standard_rank, lca_order, lca_result,
          line, lines_read, read_names_seen, tax_ids_per_read, read_count,
          read_index,
          count_per_rank, cumulative_counts_per_tax_id, parent_lookups,
          files, read_file, summary_file, count_file

treeVars == <<tax_id_to_parent, tax_id_to_rank, tax_id_to_standard_rank>>

lcaVars == <<lca_order, lca_result>>

groupVars == <<line, lines_read, read_names_seen, tax_ids_per_read,
               read_count>>

countVars == <<read_index, count_per_rank, cumulative_counts_per_tax_id,
               parent_lookups>>

fileVars == <<files, read_file, summary_file, count_file>>

vars == <<pc, error, tree_data, treeVars, lcaVars, groupVars, countVars,
          fileVars>>

\* Largest taxon ID of the trees given to load_tax_info and to a run.
MaxTaxId == 3

\* Largest taxon ID of the trees given to find_lca on its own.
MaxLcaTaxId == 4

\* Rank strings a tree record may carry: two standard labels, two that are
\* not standard, of which "clade" is also unknown to the rank ordering table.
InputRanks == {"genus", "species", "no rank", "clade"}

acceptable_ranks ==
    {"domain", "phylum", "class", "order", "family", "genus", "species"}

ranks ==
    <<"unclassified", "root", "domain", "phylum", "class", "order", "family",
      "genus", "species">>

EmptyDict == [x \in {} |-> 0]

Put(d, k, v) == [x \in (DOMAIN d) \cup {k} |-> IF x = k THEN v ELSE d[x]]

Range(s) == {s[i] : i \in DOMAIN s}

Min(S) == CHOOSE m \in S : \A n \in S : m <= n

Max(S) == CHOOSE m \in S : \A n \in S : m >= n

\* ---------------------------------------------------------------------
\* get_all_ancestors: the chain from tax_id to the root.  The walk stops at
\* 1 without looking 1 up; a key missing from the parent map is a KeyError,
\* reported here as the chain ending in -1.
RECURSIVE get_all_ancestors(_, _)
get_all_ancestors(tax_id, parent) ==
    IF tax_id = 1 THEN <<1>>
    ELSE IF tax_id \notin DOMAIN parent THEN <<tax_id, -1>>
    ELSE <<tax_id>> \o get_all_ancestors(parent[tax_id], parent)

KeyErrorIn(chain) == chain[Len(chain)] = -1

\* Keys looked up in the parent map by get_all_ancestors(tax_id, parent).
LookedUp(chain) == {chain[i] : i \in 1..(Len(chain) - 1)}

\* ---------------------------------------------------------------------
\* find_lca, given the order in which the set tax_ids is iterated.
\* A plausible slip: the ancestor sets are united, not intersected.
RECURSIVE CommonTaxa_Union(_, _, _)
CommonTaxa_Union(order, i, parent) ==
    IF i = 0 THEN {}
    ELSE CommonTaxa_Union(order, i - 1, parent) \cup
         Range(get_all_ancestors(order[i], parent))

\* A plausible slip: the first ancestor set is intersected with the empty
\* set like the others, instead of starting the common set.
RECURSIVE CommonTaxa_AlwaysIntersect(_, _, _)
CommonTaxa_AlwaysIntersect(order, i, parent) ==
    IF i = 0 THEN {}
    ELSE CommonTaxa_AlwaysIntersect(order, i - 1, parent) \cap
         Range(get_all_ancestors(order[i], parent))

\* The loop of find_lca that builds common_taxa.
RECURSIVE CommonTaxa(_, _, _)
CommonTaxa(order, i, parent) ==
    IF i = 0 THEN {}
    ELSE LET prev == CommonTaxa(order, i - 1, parent)
             ancestors == Range(get_all_ancestors(order[i], parent))
         IN  IF prev = {} THEN ancestors ELSE prev \cap ancestors

find_lca(order, parent) ==
    IF \E i \in DOMAIN order : KeyErrorIn(get_all_ancestors(order[i], parent))
    THEN [error |-> "KeyError", value |-> -1]
    ELSE IF Len(order) = 0
    THEN [error |-> "StopIteration", value |-> -1]
    ELSE LET common_taxa == CommonTaxa(order, Len(order), parent)
             chain == get_all_ancestors(order[1], parent)
             hits == {j \in DOMAIN chain : chain[j] \in common_taxa}
         IN  IF hits = {}
             THEN [error |-> "AssertionError", value |-> -1]
             ELSE [error |-> "", value |-> chain[Min(hits)]]

\* ---------------------------------------------------------------------
\* load_tax_info.
RECURSIVE BuildParent(_, _)
BuildParent(data, i) ==
    IF i = 0 THEN EmptyDict
    ELSE Put(BuildParent(data, i - 1), data[i].tax_id, data[i].parent_id)

FirstPassStep(st, rec) ==
    LET rank1 == Put(st.rank, rec.tax_id, rec.rank)
    IN  IF rec.rank \in acceptable_ranks
        THEN [st EXCEPT !.rank = rank1,
                        !.std = Put(st.std, rec.tax_id, rec.rank)]
        ELSE IF rec.tax_id = 1
        THEN IF rec.tax_id # rec.parent_id
             THEN [st EXCEPT !.rank = rank1, !.error = "AssertionError"]
             ELSE [st EXCEPT !.rank = Put(rank1, 1, "root"),
                             !.std = Put(st.std, 1, "root")]
        ELSE [st EXCEPT !.rank = rank1]

RECURSIVE FirstPass(_, _)
FirstPass(data, i) ==
    IF i = 0
    THEN [rank |-> [x \in {0} |-> "unclassified"],
          std |-> [x \in {0} |-> "unclassified"],
          error |-> ""]
    ELSE LET st == FirstPass(data, i - 1)
         IN  IF st.error # "" THEN st ELSE FirstPassStep(st, data[i])

\* A plausible slip: the rank is taken from the last ancestor of the chain
\* that has a standard rank, not from the first.
SecondPassStep_Farthest(st, rec, parent) ==
    IF rec.tax_id \in DOMAIN st.std THEN st
    ELSE LET ancestors == get_all_ancestors(rec.tax_id, parent)
             hits == {j \in DOMAIN ancestors : ancestors[j] \in DOMAIN st.std}
         IN  IF hits = {} THEN [st EXCEPT !.error = "AssertionError"]
             ELSE [st EXCEPT !.std = Put(st.std, rec.tax_id,
                                          st.std[ancestors[Max(hits)]])]

SecondPassStep(st, rec, parent) ==
    IF rec.tax_id \in DOMAIN st.std THEN st
    ELSE IF rec.rank \in acceptable_ranks
    THEN [st EXCEPT !.error = "AssertionError"]
    ELSE LET ancestors == get_all_ancestors(rec.tax_id, parent)
             hits == {j \in DOMAIN ancestors : ancestors[j] \in DOMAIN st.std}
         IN  IF KeyErrorIn(ancestors)
             THEN [st EXCEPT !.error = "KeyError"]
             ELSE IF hits = {}
             THEN [st EXCEPT !.error = "AssertionError"]
             ELSE [st EXCEPT !.std = Put(st.std, rec.tax_id,
                                          st.std[ancestors[Min(hits)]])]

RECURSIVE SecondPass(_, _, _)
SecondPass(data, i, parent) ==
    IF i = 0 THEN FirstPass(data, Len(data))
    ELSE LET st == SecondPass(data, i - 1, parent)
         IN  IF st.error # "" THEN st ELSE SecondPassStep(st, data[i], parent)

load_tax_info(data) ==
    LET parent == BuildParent(data, Len(data))
        st == SecondPass(data, Len(data), parent)
    IN  [parent |-> parent, rank |-> st.rank, std |-> st.std,
         error |-> st.error]

\* ---------------------------------------------------------------------
\* The trees given as input.  Every node other than 1 reaches 1 by parent
\* links; the parent stated for 1 and the rank strings are free, and the
\* records come in any order.
RECURSIVE WalkEnds(_, _, _)
WalkEnds(t, par, fuel) ==
    IF t = 1 THEN TRUE
    ELSE IF fuel = 0 THEN FALSE
    ELSE WalkEnds(par[t], par, fuel - 1)

Acyclic(par, n) == \A t \in 2..n : WalkEnds(t, par, n)

Orders(S) ==
    {p \in [1..Cardinality(S) -> S] :
        \A i, j \in 1..Cardinality(S) : p[i] = p[j] => i = j}

TreeRecords(par, rk, order) ==
    [i \in DOMAIN order |->
        [tax_id |-> order[i], parent_id |-> par[order[i]], rank |-> rk[order[i]]]]

NoLine == [read_name |-> "", seq_id |-> "", tax_id |-> -1]

FileNames == {"reads", "summary", "counts"}

InitRest ==
    /\ error = ""
    /\ tax_id_to_rank = EmptyDict
    /\ tax_id_to_standard_rank = EmptyDict
    /\ lca_result = [error |-> "", value |-> 0]
    /\ line = NoLine
    /\ lines_read = 0
    /\ read_names_seen = {}
    /\ tax_ids_per_read = << >>
    /\ read_count = 0
    /\ read_index = 0
    /\ count_per_rank = EmptyDict
    /\ cumulative_counts_per_tax_id = EmptyDict
    /\ parent_lookups = {}
    /\ files = [f \in FileNames |-> "absent"]
    /\ read_file = << >>
    /\ summary_file = << >>
    /\ count_file = << >>

InitIdle ==
    /\ tax_id_to_parent = EmptyDict
    /\ lca_order = << >>
    /\ InitRest

InitTree ==
    /\ pc = "load_tax_info"
    /\ \E par \in [1..MaxTaxId -> 1..MaxTaxId] :
          /\ Acyclic(par, MaxTaxId)
          /\ \E rk \in [1..MaxTaxId -> InputRanks] :
                \E order \in Orders(1..MaxTaxId) :
                    tree_data = TreeRecords(par, rk, order)
    /\ InitIdle

LoadTaxInfo ==
    /\ pc = "load_tax_info"
    /\ error = ""
    /\ \E r \in {load_tax_info(tree_data)} :
           IF r.error # ""
           THEN /\ pc' = pc
                /\ error' = r.error
                /\ UNCHANGED <<tax_id_to_parent, tax_id_to_rank,
                               tax_id_to_standard_rank>>
           ELSE /\ pc' = "load_tax_ids_per_read"
                /\ error' = ""
                /\ tax_id_to_parent' = r.parent
                /\ tax_id_to_rank' = r.rank
                /\ tax_id_to_standard_rank' = r.std
    /\ UNCHANGED <<tree_data, lcaVars, groupVars, countVars, fileVars>>

NextTree == LoadTaxInfo

SpecTree == InitTree /\ [][NextTree]_vars

\* ---------------------------------------------------------------------
\* find_lca on its own: a well-formed parent map, a non-empty set of its
\* taxon IDs and the order in which Python iterates that set.
InitLca ==
    /\ pc = "find_lca"
    /\ tree_data = << >>
    /\ \E par \in [1..MaxLcaTaxId -> 1..MaxLcaTaxId] :
          /\ par[1] = 1
          /\ Acyclic(par, MaxLcaTaxId)
          /\ tax_id_to_parent = par
    /\ \E S \in (SUBSET (1..MaxLcaTaxId)) \ {{}} : lca_order \in Orders(S)
    /\ InitRest

FindLca ==
    /\ pc = "find_lca"
    /\ lca_result' = find_lca(lca_order, tax_id_to_parent)
    /\ pc' = "found"
    /\ UNCHANGED <<error, tree_data, treeVars, lca_order, groupVars,
                   countVars, fileVars>>

NextLca == FindLca

SpecLca == InitLca /\ [][NextLca]_vars

\* ---------------------------------------------------------------------
\* load_tax_ids_per_read, one line of the classification file at a time.
\* tax_ids_per_read is the OrderedDict as the sequence of its items.
ReadNames == {"r1", "r2"}

SeqIds == {"unclassified", "no rank", "species"}

\* The header line: its third field is the text taxID, written -1 here.
HeaderLine == [read_name |-> "readID", seq_id |-> "seqID", tax_id |-> -1]

\* Largest number of lines of the classification file.
MaxLines == 2

Lines ==
    {HeaderLine} \cup
    [read_name : ReadNames, seq_id : SeqIds, tax_id : 0..(MaxTaxId + 1)]

Names(d) == {d[i].read_name : i \in DOMAIN d}

AddTaxId(d, read_name, tax_id) ==
    IF read_name \in Names(d)
    THEN [i \in DOMAIN d |->
            IF d[i].read_name = read_name
            THEN [d[i] EXCEPT !.tax_ids = @ \cup {tax_id}]
            ELSE d[i]]
    ELSE Append(d, [read_name |-> read_name, tax_ids |-> {tax_id}])

\* A plausible slip: the check of a tax ID of 0 is left out.
ParseLine_NoAssert(d, l) ==
    IF l.read_name = "readID" THEN [error |-> "", dict |-> d]
    ELSE LET tax_id == IF l.seq_id = "no rank" THEN 1 ELSE l.tax_id
         IN  [error |-> "", dict |-> AddTaxId(d, l.read_name, tax_id)]

ParseLine(d, l) ==
    IF l.read_name = "readID" THEN [error |-> "", dict |-> d]
    ELSE LET tax_id == IF l.seq_id = "no rank" THEN 1 ELSE l.tax_id
         IN  IF tax_id = 0 /\ l.seq_id # "unclassified"
             THEN [error |-> "AssertionError", dict |-> d]
             ELSE [error |-> "", dict |-> AddTaxId(d, l.read_name, tax_id)]

\* read_names_seen records the read names of the lines read so far, the
\* header apart.
ReadLine ==
    /\ pc = "load_tax_ids_per_read"
    /\ error = ""
    /\ lines_read < MaxLines
    /\ \E l \in Lines :
          \E r \in {ParseLine(tax_ids_per_read, l)} :
              /\ line' = l
              /\ lines_read' = lines_read + 1
              /\ read_names_seen' =
                     IF l.read_name = "readID" THEN read_names_seen
                     ELSE read_names_seen \cup {l.read_name}
              /\ tax_ids_per_read' = r.dict
              /\ error' = r.error
    /\ UNCHANGED <<pc, tree_data, treeVars, lcaVars, read_count, countVars,
                   fileVars>>

\* End of the classification file: the dictionary is returned to main, which
\* takes its length.
ReturnTaxIdsPerRead ==
    /\ pc = "load_tax_ids_per_read"
    /\ error = ""
    /\ line' = NoLine
    /\ read_count' = Len(tax_ids_per_read)
    /\ pc' = "open_read_file"
    /\ UNCHANGED <<error, tree_data, treeVars, lcaVars, lines_read,
                   read_names_seen, tax_ids_per_read, countVars, fileVars>>

\* main opens the per-read table and writes its header line.
OpenReadFile ==
    /\ pc = "open_read_file"
    /\ error = ""
    /\ files' = [files EXCEPT !["reads"] = "partial"]
    /\ pc' = "reads"
    /\ UNCHANGED <<error, tree_data, treeVars, lcaVars, groupVars, countVars,
                   read_file, summary_file, count_file>>

\* ---------------------------------------------------------------------
\* add_rank_count.  order is the order in which Python iterates the set
\* tax_ids; discard(0) leaves the other members in that order.  A row is
\* written in two parts: the read name and its tax IDs first, the resolved
\* tax ID and its ranks after the lookups.  The tax IDs of a row are kept as
\* the set, not as the comma-joined text.
Get(d, k) == IF k \in DOMAIN d THEN d[k] ELSE 0

Row(read_name, tax_ids, tax_id, rank, standard_rank) ==
    [read_name |-> read_name, alignment_tax_ids |-> tax_ids,
     lca_tax_id |-> tax_id, lca_rank |-> rank,
     lca_standard_rank |-> standard_rank]

AllLookedUp(order, parent) ==
    UNION {LookedUp(get_all_ancestors(order[i], parent)) : i \in DOMAIN order}

NotZero(t) == t # 0

\* A plausible slip: 0 is not discarded before the LCA is taken.
ResolveTaxId_KeepZero(order, parent) ==
    LET single == Len(order) = 1
    IN  [kept |-> order, lca_called |-> ~single,
         lca |-> IF single THEN [error |-> "", value |-> order[1]]
                 ELSE find_lca(order, parent),
         lookups |-> IF single THEN {} ELSE AllLookedUp(order, parent)]

\* The choice between the sole candidate and the LCA of the candidates other
\* than 0; lookups are the keys find_lca looks up in the parent map.
ResolveTaxId(order, parent) ==
    LET single == Len(order) = 1
        kept == IF single THEN order ELSE SelectSeq(order, NotZero)
    IN  [kept |-> kept, lca_called |-> ~single,
         lca |-> IF single THEN [error |-> "", value |-> order[1]]
                 ELSE find_lca(kept, parent),
         lookups |-> IF single THEN {} ELSE AllLookedUp(kept, parent)]

add_rank_count(read_name, per_rank, order, rank, std, parent) ==
    LET tax_ids == Range(order)
        res == ResolveTaxId(order, parent)
        tax_id == res.lca.value
        base == [returned_none |-> FALSE, error |-> "", tax_id |-> -1,
                 per_rank |-> per_rank, tax_ids |-> Range(res.kept),
                 lca_called |-> res.lca_called, lca_order |-> res.kept,
                 lca |-> res.lca, lookups |-> res.lookups,
                 rows |-> <<Row(read_name, tax_ids, -1, "", "")>>]
    IN  IF Len(order) = 0
        THEN [base EXCEPT !.returned_none = TRUE, !.lca_called = FALSE,
                          !.lookups = {}, !.rows = << >>]
        ELSE IF res.lca.error # ""
        THEN [base EXCEPT !.error = res.lca.error]
        ELSE IF tax_id \notin DOMAIN rank \/ tax_id \notin DOMAIN std
        THEN [base EXCEPT !.error = "KeyError"]
        ELSE [base EXCEPT
                !.tax_id = tax_id,
                !.per_rank = Put(per_rank, std[tax_id],
                                 Get(per_rank, std[tax_id]) + 1),
                !.rows = <<Row(read_name, tax_ids, tax_id, rank[tax_id],
                               std[tax_id])>>]

\* A plausible slip: the loop stops on reaching the root, before counting it.
RECURSIVE IncrementAlong_SkipRoot(_, _, _)
IncrementAlong_SkipRoot(counts, chain, i) ==
    IF i = 0 THEN counts
    ELSE LET c == IncrementAlong_SkipRoot(counts, chain, i - 1)
         IN  IF chain[i] = -1 \/ chain[i] = 1 THEN c
             ELSE Put(c, chain[i], Get(c, chain[i]) + 1)

\* A plausible slip: only the resolved taxon is counted, not its ancestors.
IncrementAlong_OnlySelf(counts, chain, i) ==
    IF i = 0 \/ chain[1] = -1 THEN counts
    ELSE Put(counts, chain[1], Get(counts, chain[1]) + 1)

\* The loop of main that counts a classified read at every node of its chain.
RECURSIVE IncrementAlong(_, _, _)
IncrementAlong(counts, chain, i) ==
    IF i = 0 THEN counts
    ELSE LET c == IncrementAlong(counts, chain, i - 1)
         IN  IF chain[i] = -1 THEN c ELSE Put(c, chain[i], Get(c, chain[i]) + 1)

SetTaxIds(d, i, tax_ids) == [d EXCEPT ![i].tax_ids = tax_ids]

\* One iteration of the loop of main over tax_ids_per_read.
ProcessRead ==
    /\ pc = "reads"
    /\ error = ""
    /\ read_index < Len(tax_ids_per_read)
    /\ LET e == tax_ids_per_read[read_index + 1]
       IN  \E order \in Orders(e.tax_ids) :
           \E r \in {add_rank_count(e.read_name, count_per_rank, order,
                                    tax_id_to_rank, tax_id_to_standard_rank,
                                    tax_id_to_parent)} :
             LET classified == r.error = "" /\ ~r.returned_none /\ r.tax_id > 0
                 chain == IF classified
                          THEN get_all_ancestors(r.tax_id, tax_id_to_parent)
                          ELSE <<1>>
                 err == IF r.error # "" THEN r.error
                        ELSE IF r.returned_none THEN "TypeError"
                        ELSE IF KeyErrorIn(chain) THEN "KeyError"
                        ELSE ""
             IN  /\ lca_order' = IF r.lca_called THEN r.lca_order ELSE << >>
                 /\ lca_result' = IF r.lca_called THEN r.lca
                                  ELSE [error |-> "", value |-> 0]
                 /\ tax_ids_per_read' =
                        SetTaxIds(tax_ids_per_read, read_index + 1, r.tax_ids)
                 /\ read_file' = read_file \o r.rows
                 /\ count_per_rank' = r.per_rank
                 /\ cumulative_counts_per_tax_id' =
                        IF classified
                        THEN IncrementAlong(cumulative_counts_per_tax_id,
                                            chain, Len(chain))
                        ELSE cumulative_counts_per_tax_id
                 /\ parent_lookups' =
                        parent_lookups \cup r.lookups \cup
                        (IF classified THEN LookedUp(chain) ELSE {})
                 /\ error' = err
                 /\ read_index' = IF err # "" THEN read_index
                                  ELSE read_index + 1
    /\ UNCHANGED <<pc, tree_data, treeVars, line, lines_read, read_names_seen,
                   read_count, files, summary_file, count_file>>

\* The loop is over: the with block closes the per-read table.
CloseReadFile ==
    /\ pc = "reads"
    /\ error = ""
    /\ read_index = Len(tax_ids_per_read)
    /\ files' = [files EXCEPT !["reads"] = "complete"]
    /\ pc' = "write_summary"
    /\ UNCHANGED <<error, tree_data, treeVars, lcaVars, groupVars, countVars,
                   read_file, summary_file, count_file>>

\* ---------------------------------------------------------------------
\* write_summary.  The summary line holds the read count, the count of each
\* of the nine ranks and the number of taxa seen at each rank; the percent
\* columns are left out, but their division by the total is not.
RECURSIVE SumOver(_, _)
SumOver(d, S) ==
    IF S = {} THEN 0
    ELSE LET k == CHOOSE x \in S : TRUE
         IN  d[k] + SumOver(d, S \ {k})

\* A plausible slip: the total is taken over the seven ranks of
\* taxa_count_ranks, leaving out the first two of ranks.
RECURSIVE SumRanks_TaxaRanksOnly(_, _)
SumRanks_TaxaRanksOnly(d, i) ==
    IF i <= 2 THEN 0
    ELSE SumRanks_TaxaRanksOnly(d, i - 1) + Get(d, ranks[i])

\* total_count of write_summary: the counts of ranks[1..i] added up.
RECURSIVE SumRanks(_, _)
SumRanks(d, i) ==
    IF i = 0 THEN 0 ELSE SumRanks(d, i - 1) + Get(d, ranks[i])

write_summary(n_reads, per_rank, cumulative, rank) ==
    LET rank_set == Range(ranks)
        rank_tax_ids(r) ==
            {t \in DOMAIN cumulative : cumulative[t] > 0 /\ rank[t] = r}
        rank_counts == [r \in rank_set |-> Cardinality(rank_tax_ids(r))]
        total == SumOver(per_rank, DOMAIN per_rank)
        total_count == SumRanks(per_rank, Len(ranks))
        summary == [read_count |-> n_reads,
                    counts |-> [r \in rank_set |-> Get(per_rank, r)],
                    taxa |-> [r \in acceptable_ranks |-> rank_counts[r]]]
    IN  IF \E t \in DOMAIN cumulative :
              cumulative[t] > 0 /\ t \notin DOMAIN rank
        THEN [error |-> "KeyError", status |-> "absent", text |-> << >>]
        ELSE IF total = 0
        THEN [error |-> "ZeroDivisionError", status |-> "partial",
              text |-> << >>]
        ELSE IF n_reads # total_count
        THEN [error |-> "AssertionError", status |-> "partial",
              text |-> << >>]
        ELSE [error |-> "", status |-> "complete", text |-> <<summary>>]

WriteSummary ==
    /\ pc = "write_summary"
    /\ error = ""
    /\ \E r \in {write_summary(read_count, count_per_rank,
                                cumulative_counts_per_tax_id, tax_id_to_rank)} :
           /\ files' = [files EXCEPT !["summary"] = r.status]
           /\ summary_file' = r.text
           /\ error' = r.error
           /\ pc' = IF r.error # "" THEN pc ELSE "write_counts"
    /\ UNCHANGED <<tree_data, treeVars, lcaVars, groupVars, countVars,
                   read_file, count_file>>

\* ---------------------------------------------------------------------
\* write_cumulative_count_table.  The columns are the keys of the cumulative
\* table sorted by (position of the raw rank in rank_ordering, tax ID); a
\* raw rank missing from rank_ordering is a KeyError raised by the sort,
\* before the file is opened.  A fraction count / read_count is kept as the
\* pair of its terms.
rank_ordering ==
    <<"root", "domain", "subdomain", "hyperkingdom", "superkingdom", "kingdom",
      "subkingdom", "infrakingdom", "parvkingdom", "superphylum", "phylum",
      "subphylum", "infraphylum", "microphylum", "superclass", "class",
      "subclass", "infraclass", "parvclass", "superdivision", "division",
      "subdivision", "infradivision", "superlegion", "legion", "sublegion",
      "infralegion", "supercohort", "cohort", "subcohort", "infracohort",
      "gigaorder", "magnorder", "grandorder", "mirorder", "superorder",
      "order", "nanorder", "hypoorder", "minorder", "suborder", "infraorder",
      "parvorder", "microorder", "gigafamily", "megafamily", "grandfamily",
      "hyperfamily", "superfamily", "epifamily", "family", "subfamily",
      "infrafamily", "supertribe", "tribe", "subtribe", "infratribe", "genus",
      "subgenus", "section", "subsection", "series", "subseries",
      "species group", "species subgroup", "superspecies", "species",
      "subspecies", "varietas", "subvarietas", "forma", "subforma", "strain",
      "no rank">>

RankIndex(r) == (CHOOSE n \in DOMAIN rank_ordering : rank_ordering[n] = r) - 1

SortKeyLess(a, b, rank) ==
    \/ RankIndex(rank[a]) < RankIndex(rank[b])
    \/ RankIndex(rank[a]) = RankIndex(rank[b]) /\ a < b

RECURSIVE Sorted(_, _)
Sorted(S, rank) ==
    IF S = {} THEN << >>
    ELSE LET first == CHOOSE a \in S :
                          \A b \in S \ {a} : SortKeyLess(a, b, rank)
         IN  <<first>> \o Sorted(S \ {first}, rank)

write_cumulative_count_table(cumulative, n_reads, rank) ==
    LET keys == DOMAIN cumulative
    IN  IF \E t \in keys : t \notin DOMAIN rank
                           \/ rank[t] \notin Range(rank_ordering)
        THEN [error |-> "KeyError", status |-> "absent", text |-> << >>]
        ELSE IF keys # {} /\ n_reads = 0
        THEN [error |-> "ZeroDivisionError", status |-> "partial",
              text |-> << >>]
        ELSE LET tax_ids == Sorted(keys, rank)
             IN  [error |-> "", status |-> "complete",
                  text |-> [i \in DOMAIN tax_ids |->
                              [tax_id |-> tax_ids[i],
                               rank |-> rank[tax_ids[i]],
                               count |-> cumulative[tax_ids[i]],
                               read_count |-> n_reads]]]

WriteCumulativeCountTable ==
    /\ pc = "write_counts"
    /\ error = ""
    /\ \E r \in {write_cumulative_count_table(cumulative_counts_per_tax_id,
                                               read_count, tax_id_to_rank)} :
           /\ files' = [files EXCEPT !["counts"] = r.status]
           /\ count_file' = r.text
           /\ error' = r.error
           /\ pc' = IF r.error # "" THEN pc ELSE "done"
    /\ UNCHANGED <<tree_data, treeVars, lcaVars, groupVars, countVars,
                   read_file, summary_file>>

\* ---------------------------------------------------------------------
\* A run of main.  The tree file holds the taxa 1..MaxTaxId in the order of
\* their IDs, with ranks from RunRanks; the taxa are numbered so that each
\* one but 1 has a parent of smaller ID, and the parent stated for 1 is 1 or 2.
RunRanks == {"species", "clade"}

Init ==
    /\ pc = "load_tax_info"
    /\ \E par \in [1..MaxTaxId -> 1..MaxTaxId] :
          /\ \A t \in 2..MaxTaxId : par[t] < t
          /\ par[1] <= 2
          /\ \E rk \in [1..MaxTaxId -> RunRanks] :
                tree_data = TreeRecords(par, rk, [i \in 1..MaxTaxId |-> i])
    /\ InitIdle

Next ==
    \/ LoadTaxInfo
    \/ ReadLine
    \/ ReturnTaxIdsPerRead
    \/ OpenReadFile
    \/ ProcessRead
    \/ CloseReadFile
    \/ WriteSummary
    \/ WriteCumulativeCountTable

Spec == Init /\ [][Next]_vars

\* ---------------------------------------------------------------------
\* Properties.  The ancestor relation, depth and descendants used to state
\* them are read off the parent map.
IsAncestor(a, t, parent) == a \in Range(get_all_ancestors(t, parent))

Depth(t, parent) == Len(get_all_ancestors(t, parent))

CommonAncestors(S, parent) ==
    {a \in DOMAIN parent : \A t \in S : IsAncestor(a, t, parent)}

IsDeepestCommonAncestor(r, S, parent) ==
    /\ r \in CommonAncestors(S, parent)
    /\ \A a \in CommonAncestors(S, parent) \ {r} :
          Depth(a, parent) < Depth(r, parent)

Loaded == pc # "load_tax_info"

TreeIds == DOMAIN tax_id_to_parent

\* The sequence s read from its k-th member on and around: every member of
\* a set comes first in one of these orders.
StartingAt(s, k) ==
    [i \in DOMAIN s |-> s[((i + k - 2) % Len(s)) + 1]]

\* C1: on a well-formed tree find_lca returns, for every non-empty set of
\* taxon IDs and every iteration order of it, the deepest node that is an
\* ancestor of every member; the result is the same for every choice of
\* one_tax_id; the LCA of {x} is x and of {a, b} is a when a is an ancestor
\* of b.
C1_FindLcaIsDeepestCommonAncestor ==
    pc = "found" =>
        LET S == Range(lca_order)
        IN  /\ lca_result.error = ""
            /\ IsDeepestCommonAncestor(lca_result.value, S, tax_id_to_parent)
            /\ \A k \in DOMAIN lca_order :
                  find_lca(StartingAt(lca_order, k), tax_id_to_parent)
                      = lca_result
            /\ Cardinality(S) = 1 => lca_result.value = lca_order[1]
            /\ \A a, b \in S :
                  (S = {a, b} /\ IsAncestor(a, b, tax_id_to_parent))
                      => lca_result.value = a

\* The LCA of several taxa is a node that is neither one of them nor the root.
C1_Witness ==
    /\ pc = "found"
    /\ Len(lca_order) >= 2
    /\ lca_result.value \notin Range(lca_order)
    /\ lca_result.value # 1

\* The standard rank the raw ranks and the parent links determine.
RECURSIVE NearestStandardRank(_)
NearestStandardRank(t) ==
    IF tax_id_to_rank[t] \in acceptable_ranks THEN tax_id_to_rank[t]
    ELSE IF t = 1 THEN "root"
    ELSE NearestStandardRank(tax_id_to_parent[t])

\* C2: after load_tax_info every taxon ID of the tree has one standard rank,
\* one of the nine labels: its raw rank when that is one of the seven
\* standard labels, otherwise the standard rank of its nearest ancestor that
\* has one, the root supplying "root"; this for every order of the records.
C2_StandardRankIsNearestStandardAncestor ==
    Loaded =>
        /\ DOMAIN tax_id_to_standard_rank = TreeIds \cup {0}
        /\ \A t \in TreeIds :
              /\ tax_id_to_standard_rank[t] \in Range(ranks)
              /\ tax_id_to_standard_rank[t] = NearestStandardRank(t)

\* A taxon without a standard rank comes before its parent in the file and
\* takes the rank of that parent, which differs from its grandparent's.
C2_Witness ==
    /\ Loaded
    /\ \E i, j \in DOMAIN tree_data :
          /\ i < j
          /\ tree_data[i].parent_id = tree_data[j].tax_id
          /\ tree_data[i].rank \notin acceptable_ranks
          /\ tree_data[j].rank \in acceptable_ranks
          /\ tax_id_to_standard_rank[tree_data[i].tax_id] = tree_data[j].rank
          /\ tax_id_to_standard_rank[tree_data[j].parent_id] # tree_data[j].rank

\* C3: after tree construction taxon 1 has raw rank "root" and standard rank
\* "root", whatever rank its record states.
C3_RootRankIsRoot ==
    Loaded => /\ tax_id_to_rank[1] = "root"
              /\ tax_id_to_standard_rank[1] = "root"

RootRecordHasOtherParent ==
    \E i \in DOMAIN tree_data :
        tree_data[i].tax_id = 1 /\ tree_data[i].parent_id # 1

\* C4: tree construction fails whenever the record of taxon 1 names a parent
\* other than 1, whatever its rank; it never completes with such a root.
C4_RootWithOtherParentIsFatal ==
    RootRecordHasOtherParent => ~Loaded

\* ---------------------------------------------------------------------
ReadsDone == pc \in {"write_summary", "write_counts", "done"}

RowsWithRank(r) ==
    {i \in DOMAIN read_file : read_file[i].lca_standard_rank = r}

RECURSIVE TotalOf(_, _)
TotalOf(d, S) ==
    IF S = {} THEN 0
    ELSE LET k == CHOOSE x \in S : TRUE
         IN  Get(d, k) + TotalOf(d, S \ {k})

\* C5: once all reads are processed the counts of the nine ranks add up to
\* the number of distinct read names of the classification input, each read
\* being counted at exactly one rank, and the check read_count ==
\* total_count of write_summary does not fail.
C5_RankCountsSumToReadCount ==
    ReadsDone =>
        /\ TotalOf(count_per_rank, Range(ranks)) = Cardinality(read_names_seen)
        /\ DOMAIN count_per_rank \subseteq Range(ranks)
        /\ Len(read_file) = Cardinality(read_names_seen)
        /\ \A r \in Range(ranks) :
              Get(count_per_rank, r) = Cardinality(RowsWithRank(r))
        /\ ~(pc = "write_summary" /\ error = "AssertionError")

\* Two reads, counted at two different ranks, and the summary written.
C5_Witness ==
    /\ pc = "done"
    /\ Cardinality(read_names_seen) = 2
    /\ Cardinality(DOMAIN count_per_rank) = 2
    /\ files["summary"] = "complete"

ClassifiedRows == {i \in DOMAIN read_file : read_file[i].lca_tax_id # 0}

StepComplete == pc \in {"reads", "write_summary", "write_counts", "done"}
                /\ (pc = "reads" => error = "")

\* C6: after each read's aggregation step, and after all of them, the
\* cumulative count of taxon 1 is the number of reads processed so far whose
\* resolved taxon ID is not 0.
C6_RootCountIsClassifiedReads ==
    StepComplete =>
        Get(cumulative_counts_per_tax_id, 1) = Cardinality(ClassifiedRows)

\* One read resolved to 0 and one classified read, both processed.
C6_Witness ==
    /\ pc = "done"
    /\ Get(cumulative_counts_per_tax_id, 1) = 1
    /\ \E i \in DOMAIN read_file : read_file[i].lca_tax_id = 0

\* C7 as stated: a line whose tax ID is 0 and whose category is anything but
\* "unclassified" aborts the run.
C7_ZeroWithAnyOtherCategoryAborts ==
    (line.tax_id = 0 /\ line.seq_id # "unclassified")
        => error = "AssertionError"

TaxIdsOf(d, read_name) ==
    UNION {d[i].tax_ids : i \in {j \in DOMAIN d : d[j].read_name = read_name}}

\* C7 amended: a line other than the header whose tax ID is 0 and whose
\* category is neither "unclassified" nor "no rank" aborts the run and adds
\* nothing to any candidate set; a line of category "no rank" is taken as
\* tax ID 1 whatever its tax ID field, 0 included.
C7_ZeroAbortsUnlessUnclassifiedOrNoRank ==
    [][lines_read' = lines_read + 1 =>
        /\ (line'.tax_id = 0 /\ line'.seq_id \notin {"unclassified", "no rank"})
              => /\ error' = "AssertionError"
                 /\ tax_ids_per_read' = tax_ids_per_read
        /\ line'.seq_id = "no rank"
              => /\ error' = ""
                 /\ TaxIdsOf(tax_ids_per_read', line'.read_name) =
                       TaxIdsOf(tax_ids_per_read, line'.read_name) \cup {1}]_vars

\* A line of tax ID 0 and category "species" has aborted the run after
\* another line was accepted.
C7_Witness ==
    /\ error = "AssertionError"
    /\ pc = "load_tax_ids_per_read"
    /\ line.tax_id = 0
    /\ line.seq_id = "species"
    /\ Len(tax_ids_per_read) > 0

FilesAre(reads, summary, counts) ==
    /\ files["reads"] = reads
    /\ files["summary"] = summary
    /\ files["counts"] = counts

\* C8 as stated: a run that ends has written all its output files or, on a
\* fatal error, none of them.
C8_AllFilesOrNone ==
    /\ pc = "done" => FilesAre("complete", "complete", "complete")
    /\ error # "" => FilesAre("absent", "absent", "absent")

\* C8 amended: a run ends with all output files written or in a fatal
\* error.  An error in load_tax_info or load_tax_ids_per_read leaves no
\* file.  An error while the reads are resolved is a candidate ID missing
\* from the tree, never the LCA assertion, and leaves the per-read table
\* partly written, its last row cut short.  An error in write_summary is the
\* division by a total of zero reads, never the count check, and leaves the
\* summary partly written after the complete per-read table.  An error in
\* write_cumulative_count_table is a rank unknown to rank_ordering and
\* leaves the other two files complete.
C8_FilesAtTheEndOfARun ==
    /\ pc = "done" => /\ error = ""
                      /\ FilesAre("complete", "complete", "complete")
    /\ error # "" =>
          \/ /\ pc \in {"load_tax_info", "load_tax_ids_per_read"}
             /\ FilesAre("absent", "absent", "absent")
          \/ /\ pc = "reads"
             /\ error = "KeyError"
             /\ FilesAre("partial", "absent", "absent")
             /\ Len(read_file) > 0
             /\ read_file[Len(read_file)].lca_tax_id = -1
          \/ /\ pc = "write_summary"
             /\ error = "ZeroDivisionError"
             /\ read_count = 0
             /\ FilesAre("complete", "partial", "absent")
          \/ /\ pc = "write_counts"
             /\ error = "KeyError"
             /\ FilesAre("complete", "complete", "absent")

\* A second read names a taxon missing from the tree: the per-read table
\* holds one full row and one cut short.
C8_Witness ==
    /\ pc = "reads"
    /\ error = "KeyError"
    /\ Len(read_file) = 2
    /\ read_file[1].lca_tax_id > 0
    /\ files["reads"] = "partial"

RowIsFull(i) == read_file[i].lca_tax_id # -1

\* C9: a read with one candidate resolves to it, so {0} resolves to 0 with
\* standard rank "unclassified"; a read with more resolves to the LCA of its
\* candidates other than 0, so {0, x} resolves to x; find_lca is not called
\* with an empty set or with a set holding 0, and 0 is not looked up in the
\* parent map.
C9_ResolutionDiscardsZero ==
    /\ \A i \in DOMAIN read_file :
          LET row == read_file[i]
          IN  RowIsFull(i) =>
                /\ Cardinality(row.alignment_tax_ids) = 1
                      => row.alignment_tax_ids = {row.lca_tax_id}
                /\ Cardinality(row.alignment_tax_ids) > 1
                      => IsDeepestCommonAncestor(row.lca_tax_id,
                                                 row.alignment_tax_ids \ {0},
                                                 tax_id_to_parent)
                /\ row.lca_tax_id = 0
                      => row.lca_standard_rank = "unclassified"
                /\ \A x \in TreeIds :
                      row.alignment_tax_ids = {0, x} => row.lca_tax_id = x
    /\ 0 \notin Range(lca_order)
    /\ lca_result.error # "StopIteration"
    /\ 0 \notin parent_lookups

\* A read with the candidates 0 and x, x not the root, resolved to x.
C9_Witness ==
    \E i \in DOMAIN read_file :
        /\ 0 \in read_file[i].alignment_tax_ids
        /\ Cardinality(read_file[i].alignment_tax_ids) = 2
        /\ read_file[i].lca_tax_id > 1
        /\ lca_order = <<read_file[i].lca_tax_id>>

ReadsAtOrUnder(t) ==
    {i \in DOMAIN read_file :
        /\ read_file[i].lca_tax_id > 0
        /\ IsAncestor(t, read_file[i].lca_tax_id, tax_id_to_parent)}

Children(t) == {c \in TreeIds \ {1} : tax_id_to_parent[c] = t}

RECURSIVE CountInOrder(_, _)
CountInOrder(ids, i) ==
    IF i = 0 THEN EmptyDict
    ELSE LET c == CountInOrder(ids, i - 1)
             chain == get_all_ancestors(ids[i], tax_id_to_parent)
         IN  IF ids[i] > 0 THEN IncrementAlong(c, chain, Len(chain)) ELSE c

\* C10: once all reads are processed the cumulative table holds for every
\* taxon t the number of reads resolved to t or to a descendant of t, 0
\* apart; its keys are the taxa for which that number is at least 1; the
\* count of a node is at least the sum of the counts of its children; and
\* the table is the same for every order of processing the reads.
C10_CumulativeCountsAreSubtreeCounts ==
    ReadsDone =>
        /\ \A t \in 0..(MaxTaxId + 1) :
              Get(cumulative_counts_per_tax_id, t) =
                  Cardinality(ReadsAtOrUnder(t))
        /\ DOMAIN cumulative_counts_per_tax_id =
              {t \in 0..(MaxTaxId + 1) : Cardinality(ReadsAtOrUnder(t)) >= 1}
        /\ \A t \in DOMAIN cumulative_counts_per_tax_id :
              cumulative_counts_per_tax_id[t] >=
                  TotalOf(cumulative_counts_per_tax_id, Children(t))
        /\ \A o \in Orders(DOMAIN read_file) :
              CountInOrder([i \in DOMAIN read_file |->
                               read_file[o[i]].lca_tax_id],
                           Len(read_file))
                  = cumulative_counts_per_tax_id

\* Two classified reads, one resolved to a taxon below the other's: a node
\* counted twice above a node counted once.
C10_Witness ==
    /\ pc = "done"
    /\ \E t \in DOMAIN cumulative_counts_per_tax_id :
          /\ t # 1
          /\ cumulative_counts_per_tax_id[t] = 2
          /\ \E c \in Children(t) : Get(cumulative_counts_per_tax_id, c) = 1

====
